---- MODULE Spec2Model ----
(***************************************************************************)
(* BookSphere: the password-reset flow of server/routes/auth.js            *)
(* (POST /forgot-password, POST /reset-password), as found in              *)
(* src/booksphere/app/(auth)/signIn.tsx lines 155-419, and the handlers    *)
(* of the screens SignIn (signIn.tsx lines 1-153) and ResetPassword        *)
(* (resetPassword.tsx).                                                    *)
(*                                                                         *)
(* Each request handler is an async function; it runs atomically between   *)
(* two awaits, so every action below is one such segment of a handler,     *)
(* and the handlers of different requests interleave at these points.      *)
(* Spec is the server with the requests it receives, ClientSpec the        *)
(* screens with the responses they receive.                                *)
(***************************************************************************)
EXTENDS Integers, Sequences, FiniteSets, TLC

VARIABLES users, now, ticks, env, reqs, issued, hist

\* the client: the screen the router shows, the text inputs of the screen,
\* the loading flags and the runs of the handlers
VARIABLES screen, form, loading, run

serverVars == <<users, now, ticks, env, reqs, issued, hist>>
clientVars == <<screen, form, loading, run>>
vars == <<users, now, ticks, env, reqs, issued, hist, screen, form, loading, run>>

(***************************************************************************)
(* Bounds of the model.                                                    *)
(***************************************************************************)
\* how many times the clock is advanced in one behaviour
MaxTicks == 1
\* the length of the longest password typed into a screen
MaxLen == 7

(***************************************************************************)
(* Values.                                                                 *)
(***************************************************************************)
\* the JavaScript value undefined (a missing body field, a missing document
\* field, findOne's null)
Undefined == "undefined"

\* 60 * 60 * 1000: the life time of a reset token in milliseconds
HOUR == 3600000

\* the requests of one behaviour, in the order in which they arrive; each
\* has its own run of the handler, and the runs interleave
Procs == {"p1", "p2", "p3"}
Earlier(p) == IF p = "p1" THEN {} ELSE IF p = "p2" THEN {"p1"} ELSE {"p1", "p2"}

\* the _id values of the documents of the users collection
UserIds == {"id1", "id2"}

\* strings new ObjectId(String(id)) accepts; "id9" is the _id of no document
ValidObjectIds == UserIds \cup {"id9"}

\* the email stored in each document (createUser stores it lower-cased)
EmailOf(id) == IF id = "id1" THEN "joy@x.com" ELSE "sam@x.com"

\* the raw tokens crypto.randomBytes(32).toString("hex") returns: 256 random
\* bits, so that the k-th call returns a value no earlier call returned
RawToken(k) == IF k = 1 THEN "tok1" ELSE IF k = 2 THEN "tok2" ELSE "tok3"

\* the salt bcrypt draws for the k-th hash it computes for a request
Salt(p) == IF p = "p1" THEN "s1" ELSE IF p = "p2" THEN "s2" ELSE "s3"

\* bcrypt.hash(data, 10): a salted one-way hash, a value of its own kind
\* that is never equal to the data it was computed from
BcryptHash(data, salt) == [bcrypt |-> data, salt |-> salt]

\* bcrypt.compare(data, hash): re-hashes data with the salt of hash
BcryptCompare(data, hash) == BcryptHash(data, hash.salt) = hash

\* String(email).toLowerCase() on the emails the model sends
ToLowerCase(s) ==
  IF s = "Joy@X.com" THEN "joy@x.com" ELSE s

\* JavaScript truthiness of a body field (a string or undefined)
Truthy(x) == x \notin {Undefined, ""}

\* document and object fields
Has(doc, f) == f \in DOMAIN doc
Unset(doc, fs) == [f \in (DOMAIN doc) \ fs |-> doc[f]]
SetFields(doc, upd) ==
  [f \in (DOMAIN doc) \cup (DOMAIN upd) |-> IF f \in DOMAIN upd THEN upd[f] ELSE doc[f]]

\* a lookup that falls back on the first document when none matches
FindByEmail_OrFirst(us, email) ==
  IF \E id \in UserIds : us[id].email = email
  THEN CHOOSE id \in UserIds : us[id].email = email
  ELSE "id1"

\* users.findOne({ email }): the _id of the matching document, or Undefined
FindByEmail(us, email) ==
  IF \E id \in UserIds : us[id].email = email
  THEN CHOOSE id \in UserIds : us[id].email = email
  ELSE Undefined

\* a lookup by _id that falls back on the first document
FindById_OrFirst(us, id) == IF id \in UserIds THEN {us[id]} ELSE {us["id1"]}

\* users.findOne({ _id }): the matching document (as a set of one), or none
FindById(us, id) == IF id \in UserIds THEN {us[id]} ELSE {}

MsgGeneric == "If an account with that email exists, a reset email has been sent"
MsgDev == "Password reset (dev): check returned resetURL or email preview."

Response(status, body) == [status |-> status, body |-> body]
Fail(status, message) == Response(status, [success |-> FALSE, message |-> message])
ServerError == Fail(500, "Server error")
GenericAck == Response(200, [success |-> TRUE, message |-> MsgGeneric])

\* a request that has not arrived yet; a request that got its response
\* keeps its record.  Beside the handler's own variables a record notes
\* what the properties below refer to: after, the requests that had their
\* response when this one arrived; at and checkedAt, the clock as the
\* handler read it; readAt, the number of updates the store had applied
\* when it answered findOne; sendResult, what sendResetEmail returned.
\* hist lists the requests in the order in which the store applied their
\* updates.
Idle == [route |-> "idle", pc |-> "idle"]
Free(p) == reqs[p].pc = "idle" /\ \A q \in Earlier(p) : reqs[q].pc # "idle"
Completed == {q \in Procs : reqs[q].pc = "done"}
Done(r, res) == SetFields(r, [pc |-> "done", res |-> res])

(***************************************************************************)
(* process.env, the request bodies, the outcomes of sendResetEmail.        *)
(***************************************************************************)
Envs ==
  [NODE_ENV : {"production", "development"},
   DEV_EMAIL_RETURN_URL : {"true", Undefined},
   EMAIL_USER : {"mailer@x.com", Undefined}]

Emails == {Undefined, "", "Joy@X.com", "ghost@x.com"}
ForgotBodies == [email : Emails]

IssuedTokens == {RawToken(k) : k \in 1..issued}
\* the new password differs from request to request
Password(p) == IF p = "p1" THEN "pw1" ELSE IF p = "p2" THEN "pw2" ELSE "pw3"
ResetBodies(p) ==
  [id : {"id1"}, token : IssuedTokens \cup {"bogus"}, password : {Password(p)}]
    \cup [id : {"id2", "id9", "zz"}, token : {"tok1"}, password : {Password(p)}]
    \cup {[id |-> Undefined, token |-> "tok1", password |-> Password(p)],
          [id |-> "id1", token |-> Undefined, password |-> Password(p)],
          [id |-> "id1", token |-> "tok1", password |-> ""]}

\* what sendResetEmail(toEmail, resetURL) can return: the configured SMTP
\* transport is tried when EMAIL_USER and EMAIL_PASS are set, then the
\* Ethereal test account; each of the two sends can fail
SendResults(e) ==
  (IF Truthy(e.EMAIL_USER)
   THEN {[success |-> TRUE, mailSent |-> TRUE, info |-> "info"]}
   ELSE {})
    \cup {[success |-> TRUE, mailSent |-> FALSE, previewUrl |-> "preview", info |-> "info"],
          [success |-> FALSE, error |-> "Error"]}

\* `${frontend}/reset-password?token=${resetToken}&id=${user._id}`
ResetURL(token, id) == [path |-> "/reset-password", token |-> token, id |-> id]

\* the test of NODE_ENV with === in the place of !==
DEV_RETURN_URL_Inverted(e) == e.DEV_EMAIL_RETURN_URL = "true" \/ e.NODE_ENV = "production"

\* process.env.DEV_EMAIL_RETURN_URL === "true" || process.env.NODE_ENV !== "production"
DEV_RETURN_URL(e) == e.DEV_EMAIL_RETURN_URL = "true" \/ e.NODE_ENV # "production"

\* the optional fields previewUrl, info and error of the dev response
CopyIfSet(sendResult) ==
  [f \in (DOMAIN sendResult) \cap {"previewUrl", "info", "error"} |-> sendResult[f]]

\* a response that reports the outcome of the delivery as its success
ForgotResponseBody_ReportsDelivery(e, resetURL, sendResult) ==
  IF DEV_RETURN_URL(e)
  THEN SetFields([success |-> sendResult.success, message |-> MsgDev, resetURL |-> resetURL,
                  mailSent |-> (Has(sendResult, "mailSent") /\ sendResult.mailSent)],
                 CopyIfSet(sendResult))
  ELSE [success |-> sendResult.success, message |-> MsgGeneric]

\* the body of the response of forgot-password once the email was attempted
ForgotResponseBody(e, resetURL, sendResult) ==
  IF DEV_RETURN_URL(e)
  THEN SetFields([success |-> TRUE, message |-> MsgDev, resetURL |-> resetURL,
                  mailSent |-> (Has(sendResult, "mailSent") /\ sendResult.mailSent)],
                 CopyIfSet(sendResult))
  ELSE [success |-> TRUE, message |-> MsgGeneric]

\* a handler that answers 500 when the delivery failed
ForgotResponse_FailsWithDelivery(e, resetURL, sendResult) ==
  IF sendResult.success
  THEN Response(200, ForgotResponseBody(e, resetURL, sendResult))
  ELSE ServerError

\* res.json(...) after sendResetEmail returned: the status is left at 200,
\* whatever sendResult says
ForgotResponse(e, resetURL, sendResult) ==
  Response(200, ForgotResponseBody(e, resetURL, sendResult))

(***************************************************************************)
(* Initial state: two users who signed up, no reset token outstanding.     *)
(***************************************************************************)
ServerInit ==
  /\ users = [id \in UserIds |->
               [email |-> EmailOf(id), passwordHash |-> BcryptHash("pw0", "s0")]]
  /\ now = 1
  /\ ticks = 0
  /\ env \in Envs
  /\ reqs = [p \in Procs |-> Idle]
  /\ issued = 0
  /\ hist = <<>>

(***************************************************************************)
(* The screens: SignIn with its handlers handleSignIn and                  *)
(* handleForgotPassword, ResetPassword with its handler submit.  They are  *)
(* what the router shows; "tabs" is the main app, which the model does not *)
(* enter.                                                                  *)
(***************************************************************************)
Handlers == {"submit", "handleSignIn", "handleForgotPassword"}
ScreenOf(h) == IF h = "submit" THEN "resetPassword" ELSE "signIn"

\* a text of n characters
Chars(n) == [i \in 1..n |-> "x"]
\* what the user types: the empty text and passwords around the least
\* length the ResetPassword screen accepts
PasswordInputs == {Chars(n) : n \in {0} \cup (MaxLen - 2)..MaxLen}
EmailInputs == {"", "joy@x.com"}
\* useLocalSearchParams(): the token and the id of the link, if it has them
LinkParams == [token : {Undefined, "tok1"}, id : {Undefined, "id1"}]

\* the state of a screen when it mounts: useState("") for the text inputs,
\* useState(false) for the flags loading (of submit), loadingSignIn (of
\* handleSignIn) and loadingForgot (of handleForgotPassword); a component
\* that is not mounted has no state, and its flags are read here as the
\* false its next mount starts from
NoFields == [f \in {} |-> ""]
FormOf(sc) ==
  IF sc = "signIn" THEN [email |-> "", password |-> <<>>]
  ELSE IF sc = "resetPassword" THEN [password |-> <<>>]
  ELSE NoFields
NotLoading == [h \in Handlers |-> FALSE]
NotRunning == [pc |-> "idle"]

\* the app shows the screen sc, just mounted; no handler has run
Mounted(sc) ==
  /\ screen = sc
  /\ \/ sc # "resetPassword" /\ form = FormOf(sc)
     \/ sc = "resetPassword" /\ \E params \in LinkParams : form = SetFields(FormOf(sc), params)
  /\ loading = NotLoading
  /\ run = [h \in Handlers |-> NotRunning]

\* the server and the requests it will receive; the app shows SignIn
Init == ServerInit /\ Mounted("signIn")

\* the app was opened on SignIn, or on ResetPassword by the link of a reset
\* email; the server, a production server, has received nothing
ClientInit ==
  /\ ServerInit
  /\ env = [NODE_ENV |-> "production", DEV_EMAIL_RETURN_URL |-> Undefined,
            EMAIL_USER |-> "mailer@x.com"]
  /\ \E sc \in {"signIn", "resetPassword"} : Mounted(sc)

\* Date.now(): the clock has not moved since it was last read, or it has
\* moved by the life time of a token, or by a millisecond more than that
DateNow ==
  /\ \/ now' = now /\ ticks' = ticks
     \/ /\ ticks < MaxTicks
        /\ \E d \in {HOUR, HOUR + 1} : now' = now + d
        /\ ticks' = ticks + 1

(***************************************************************************)
(* POST /forgot-password                                                   *)
(*                                                                         *)
(* A handler touches the store twice: findOne, then updateOne.  What it    *)
(* does before findOne answers reads nothing that is shared, so the        *)
(* arrival of the request, the validation of its body and the lookup are   *)
(* one step; the step goes on to the call of updateOne, between which and  *)
(* the lookup only the clock is read.  The second step is the update as    *)
(* the store applies it, and what follows it up to the response.           *)
(***************************************************************************)
\* an expiry an hour of seconds away, not of milliseconds
ExpireAt_Seconds(t) == t + 3600

\* Date.now() + 60 * 60 * 1000
ExpireAt(t) == t + HOUR

\* the request arrives; connectToDatabase and users.findOne answer (or
\* throw); without a user the generic response is sent, with one the
\* token, its hash and its expiry are computed
Forgot(p) ==
  /\ Free(p)
  /\ \E body \in ForgotBodies :
       LET r == [route |-> "forgot-password", pc |-> "update", body |-> body,
                 after |-> Completed]
           id == FindByEmail(users, ToLowerCase(body.email))
       IN \/ /\ ~Truthy(body.email)
             /\ reqs' = [reqs EXCEPT ![p] = Done(r, Fail(400, "Email required"))]
             /\ UNCHANGED <<issued, now, ticks>>
          \/ /\ Truthy(body.email)
             /\ reqs' = [reqs EXCEPT ![p] = Done(r, ServerError)]
             /\ UNCHANGED <<issued, now, ticks>>
          \/ /\ Truthy(body.email)
             /\ id = Undefined
             /\ reqs' = [reqs EXCEPT ![p] = Done(SetFields(r, [user |-> id]), GenericAck)]
             /\ UNCHANGED <<issued, now, ticks>>
          \/ /\ Truthy(body.email)
             /\ id # Undefined
             /\ issued' = issued + 1
             /\ DateNow
             /\ reqs' = [reqs EXCEPT ![p] =
                  SetFields(r, [user |-> id, at |-> now',
                                resetToken |-> RawToken(issued + 1),
                                hashedToken |-> BcryptHash(RawToken(issued + 1), Salt(p)),
                                expireAt |-> ExpireAt(now')])]
  /\ UNCHANGED <<users, env, hist>>
  /\ UNCHANGED clientVars

\* a $set that leaves an outstanding token in place instead of overwriting it
IssueUpdate_KeepOutstanding(doc, hashedToken, expireAt) ==
  IF Has(doc, "resetPasswordToken") THEN doc
  ELSE SetFields(doc, [resetPasswordToken |-> hashedToken, resetPasswordExpire |-> expireAt])

\* a $set that never shortens the life time of an outstanding token
IssueUpdate_KeepLaterExpire(doc, hashedToken, expireAt) ==
  SetFields(doc, [resetPasswordToken |-> hashedToken,
                  resetPasswordExpire |->
                    IF Has(doc, "resetPasswordExpire") /\ doc.resetPasswordExpire > expireAt
                    THEN doc.resetPasswordExpire ELSE expireAt])

\* { $set: { resetPasswordToken: hashedToken, resetPasswordExpire: expireAt } }
\* as one document update
IssueUpdate(doc, hashedToken, expireAt) ==
  SetFields(doc, [resetPasswordToken |-> hashedToken, resetPasswordExpire |-> expireAt])

\* the store applies users.updateOne({ _id }, { $set: ... }) (or throws);
\* then sendResetEmail returns (it catches every error) and the response is
\* sent
ForgotUpdate(p) ==
  /\ reqs[p].route = "forgot-password" /\ reqs[p].pc = "update"
  /\ LET r == reqs[p]
     IN \/ /\ reqs' = [reqs EXCEPT ![p] = Done(r, ServerError)]
           /\ UNCHANGED <<users, hist>>
        \/ /\ users' = [users EXCEPT ![r.user] = IssueUpdate(@, r.hashedToken, r.expireAt)]
           /\ hist' = Append(hist, p)
           /\ \E sendResult \in SendResults(env) :
                reqs' = [reqs EXCEPT ![p] =
                  Done(SetFields(r, [sendResult |-> sendResult]),
                       ForgotResponse(env, ResetURL(r.resetToken, r.user), sendResult))]
  /\ UNCHANGED <<now, ticks, env, issued>>
  /\ UNCHANGED clientVars

(***************************************************************************)
(* POST /reset-password                                                    *)
(***************************************************************************)
\* Number(user.resetPasswordExpire || 0)
ExpireOf(user) == IF Has(user, "resetPasswordExpire") THEN user.resetPasswordExpire ELSE 0

\* the test without its comparison of the clock with the expiry
ExpiredOrMissing_MissingOnly(user, t) ==
  \/ ~Has(user, "resetPasswordToken")
  \/ ExpireOf(user) = 0

\* !hashedToken || !expire || Date.now() > expire
ExpiredOrMissing(user, t) ==
  \/ ~Has(user, "resetPasswordToken")
  \/ ExpireOf(user) = 0
  \/ t > ExpireOf(user)

\* the checks with bcrypt.compare moved before the test of the expiry
ResetChecked_CompareFirst(p, r0, user, t) ==
  LET r == SetFields(r0, [user |-> user, readAt |-> Len(hist), checkedAt |-> t])
  IN IF ~Has(user, "resetPasswordToken") \/ ExpireOf(user) = 0
     THEN Done(r, Fail(400, "Token expired or invalid"))
     ELSE IF ~BcryptCompare(r.body.token, user.resetPasswordToken)
     THEN Done(r, Fail(400, "Token invalid"))
     ELSE IF t > ExpireOf(user)
     THEN Done(r, Fail(400, "Token expired or invalid"))
     ELSE SetFields(r, [newHashed |-> BcryptHash(r.body.password, Salt(p))])

\* what the handler does with the document findOne gave it, the clock
\* reading t: the checks of the token, bcrypt.compare, bcrypt.hash
ResetChecked(p, r0, user, t) ==
  LET r == SetFields(r0, [user |-> user, readAt |-> Len(hist), checkedAt |-> t])
  IN IF ExpiredOrMissing(user, t)
     THEN Done(r, Fail(400, "Token expired or invalid"))
     ELSE IF ~BcryptCompare(r.body.token, user.resetPasswordToken)
     THEN Done(r, Fail(400, "Token invalid"))
     ELSE SetFields(r, [newHashed |-> BcryptHash(r.body.password, Salt(p))])

\* the request arrives, its body is validated and its id parsed;
\* connectToDatabase and users.findOne({ _id }) answer (or throw); the
\* handler resumes with the document and runs up to the call of
\* users.updateOne
Reset(p) ==
  /\ Free(p)
  /\ \E body \in ResetBodies(p) :
       LET r == [route |-> "reset-password", pc |-> "update", body |-> body,
                 after |-> Completed]
           valid == Truthy(body.id) /\ Truthy(body.token) /\ Truthy(body.password)
           found == FindById(users, body.id)
       IN \/ /\ ~valid
             /\ reqs' = [reqs EXCEPT ![p] =
                            Done(r, Fail(400, "id, token and password are required"))]
             /\ UNCHANGED <<now, ticks>>
          \/ /\ valid /\ body.id \notin ValidObjectIds
             /\ reqs' = [reqs EXCEPT ![p] = Done(r, Fail(400, "Invalid user id"))]
             /\ UNCHANGED <<now, ticks>>
          \/ /\ valid /\ body.id \in ValidObjectIds
             /\ reqs' = [reqs EXCEPT ![p] = Done(r, ServerError)]
             /\ UNCHANGED <<now, ticks>>
          \/ /\ valid /\ body.id \in ValidObjectIds
             /\ found = {}
             /\ reqs' = [reqs EXCEPT ![p] = Done(r, Fail(404, "User not found"))]
             /\ UNCHANGED <<now, ticks>>
          \/ /\ valid /\ body.id \in ValidObjectIds
             /\ DateNow
             /\ \E user \in found :
                  reqs' = [reqs EXCEPT ![p] = ResetChecked(p, r, user, now')]
  /\ UNCHANGED <<users, env, issued, hist>>
  /\ UNCHANGED clientVars

\* an update that clears the token fields and leaves passwordHash alone
RedeemUpdate_KeepPassword(doc, newHashed, t) ==
  Unset(SetFields(doc, [updatedAt |-> t]),
        {"resetPasswordToken", "resetPasswordExpire"})

\* an update whose $unset forgets resetPasswordExpire
RedeemUpdate_KeepExpire(doc, newHashed, t) ==
  Unset(SetFields(doc, [passwordHash |-> newHashed, updatedAt |-> t]),
        {"resetPasswordToken"})

\* an update without the $unset
RedeemUpdate_NoUnset(doc, newHashed, t) ==
  SetFields(doc, [passwordHash |-> newHashed, updatedAt |-> t])

\* { $set: { passwordHash, updatedAt }, $unset: { resetPasswordToken,
\* resetPasswordExpire } } as one document update
RedeemUpdate(doc, newHashed, t) ==
  Unset(SetFields(doc, [passwordHash |-> newHashed, updatedAt |-> t]),
        {"resetPasswordToken", "resetPasswordExpire"})

\* the store applies users.updateOne({ _id }, ...) (or throws) and the
\* response is sent; updatedAt is the clock as the handler last read it
ResetUpdate(p) ==
  /\ reqs[p].route = "reset-password" /\ reqs[p].pc = "update"
  /\ LET r == reqs[p]
     IN \/ /\ reqs' = [reqs EXCEPT ![p] = Done(r, ServerError)]
           /\ UNCHANGED <<users, hist>>
        \/ /\ users' = [users EXCEPT ![r.body.id] = RedeemUpdate(@, r.newHashed, r.checkedAt)]
           /\ hist' = Append(hist, p)
           /\ reqs' = [reqs EXCEPT ![p] =
                Done(r, Response(200, [success |-> TRUE,
                                       message |-> "Password reset successful"]))]
  /\ UNCHANGED <<now, ticks, env, issued>>
  /\ UNCHANGED clientVars

(***************************************************************************)
(* The handlers of the screens.  A handler is an async function: it runs   *)
(* from the press of its button to its first await, and then from each     *)
(* await to the next, in one step each.  React applies the state updates   *)
(* of a step before the next event is handled.                             *)
(***************************************************************************)
\* the statuses a response can have, around the range of res.ok
Statuses == {200, 299, 300, 404, 500}

\* res.ok of a response that treats every status below 500 as a success
ResOk_Below500(status) == status < 500

\* res.ok: the status is in the range 200-299
ResOk(status) == status >= 200 /\ status <= 299

\* onChangeText={setEmail}, onChangeText={setPassword}: the user edits a
\* text input of the screen
OnChangeText ==
  /\ \E field \in (DOMAIN form) \cap {"email", "password"} :
       \E text \in (IF field = "email" THEN EmailInputs ELSE PasswordInputs) :
         /\ text # form[field]
         /\ form' = [form EXCEPT ![field] = text]
  /\ UNCHANGED <<screen, loading, run>>
  /\ UNCHANGED serverVars

\* !password || password.length < 6
TooShort(password) == password = <<>> \/ Len(password) < 6

\* setLoading(v), setLoadingSignIn(v), setLoadingForgot(v): React ignores
\* the update of a component that is not mounted any more
SetLoading(h, v) ==
  IF screen = ScreenOf(h) THEN [loading EXCEPT ![h] = v] ELSE loading

\* the handler returns before it sets its flag: Alert.alert and nothing else
Refuse(h) ==
  /\ run' = [run EXCEPT ![h] = [pc |-> "idle", ended |-> "refused"]]
  /\ UNCHANGED <<screen, form, loading>>

\* set the flag and call fetch with the body
Send(h, body) ==
  /\ loading' = SetLoading(h, TRUE)
  /\ run' = [run EXCEPT ![h] = [pc |-> "fetch", body |-> body]]
  /\ UNCHANGED <<screen, form>>

\* submit, from the press of the button "Reset Password" (disabled while
\* loading) to the call of fetch
Submit ==
  /\ screen = "resetPassword" /\ ~loading["submit"]
  /\ \/ TooShort(form.password) /\ Refuse("submit")
     \/ /\ ~TooShort(form.password)
        /\ Send("submit", [id |-> form.id, token |-> form.token, password |-> form.password])
  /\ UNCHANGED serverVars

\* handleSignIn, from the press of the button "Sign In" (not shown while
\* loadingSignIn) to the call of fetch
HandleSignIn ==
  /\ screen = "signIn" /\ ~loading["handleSignIn"]
  /\ \/ (form.email = "" \/ form.password = <<>>) /\ Refuse("handleSignIn")
     \/ /\ form.email # "" /\ form.password # <<>>
        /\ Send("handleSignIn", [email |-> form.email, password |-> form.password])
  /\ UNCHANGED serverVars

\* handleForgotPassword, from the press of the button "Forgot Password?"
\* (not shown while loadingForgot) to the call of fetch
HandleForgotPassword ==
  /\ screen = "signIn" /\ ~loading["handleForgotPassword"]
  /\ \/ form.email = "" /\ Refuse("handleForgotPassword")
     \/ /\ form.email # ""
        /\ Send("handleForgotPassword", [email |-> form.email])
  /\ UNCHANGED serverVars

\* a handler whose early return inside try leaves without the finally block
Finish_ReturnSkipsFinally(h, how, sc) ==
  /\ run' = [run EXCEPT ![h] = [pc |-> "idle", ended |-> how]]
  /\ screen' = sc
  /\ IF sc # screen
     THEN form' = FormOf(sc) /\ loading' = NotLoading
     ELSE /\ form' = form
          /\ loading' = IF how = "notOk" THEN loading ELSE SetLoading(h, FALSE)

\* the end of a run of the handler h: the router shows sc (router.replace,
\* which unmounts the screen and mounts sc, when sc is another screen), and
\* the finally block resets the flag
Finish(h, how, sc) ==
  /\ run' = [run EXCEPT ![h] = [pc |-> "idle", ended |-> how]]
  /\ screen' = sc
  /\ IF sc # screen
     THEN form' = FormOf(sc) /\ loading' = NotLoading
     ELSE form' = form /\ loading' = SetLoading(h, FALSE)

\* the run of h goes on to its next await, with what it still reads
Await(h, pc, fields) ==
  /\ run' = [run EXCEPT ![h] = SetFields([pc |-> pc, body |-> @.body], fields)]
  /\ UNCHANGED <<screen, form, loading>>

\* await fetch(...): the promise resolves with a response, or rejects (the
\* network failed) and the run goes through catch and finally
Fetched(h) ==
  /\ run[h].pc = "fetch"
  /\ \/ \E status \in Statuses : Await(h, "json", [status |-> status])
     \/ Finish(h, "exception", screen)
  /\ UNCHANGED serverVars

\* submit after await res.json(): the promise rejects (the body is not
\* JSON), or !res.ok throws, or the screen is replaced by SignIn
SubmitResumes ==
  /\ run["submit"].pc = "json"
  /\ \/ Finish("submit", "exception", screen)
     \/ ~ResOk(run["submit"].status) /\ Finish("submit", "notOk", screen)
     \/ ResOk(run["submit"].status) /\ Finish("submit", "ok", "signIn")
  /\ UNCHANGED serverVars

\* the fields token and user the response of login may have
LoginData == [token : BOOLEAN, user : BOOLEAN]

\* handleSignIn after the body was parsed (res.json().catch(() => ({}))
\* never rejects): the early return on !res.ok, or AsyncStorage.setItem
\* for the token and the user the response has, then router.replace
SignInResumes ==
  /\ run["handleSignIn"].pc = "json"
  /\ \/ ~ResOk(run["handleSignIn"].status) /\ Finish("handleSignIn", "notOk", screen)
     \/ /\ ResOk(run["handleSignIn"].status)
        /\ \E data \in LoginData :
             IF data.token THEN Await("handleSignIn", "setToken", [data |-> data])
             ELSE IF data.user THEN Await("handleSignIn", "setUser", [data |-> data])
             ELSE Finish("handleSignIn", "ok", "tabs")
  /\ UNCHANGED serverVars

\* await AsyncStorage.setItem(...) resolves or rejects
SignInStored ==
  /\ run["handleSignIn"].pc \in {"setToken", "setUser"}
  /\ \/ Finish("handleSignIn", "exception", screen)
     \/ IF run["handleSignIn"].pc = "setToken" /\ run["handleSignIn"].data.user
        THEN Await("handleSignIn", "setUser", [data |-> run["handleSignIn"].data])
        ELSE Finish("handleSignIn", "ok", "tabs")
  /\ UNCHANGED serverVars

\* handleForgotPassword after the body was parsed: the early return on
\* !res.ok, or Linking.openURL when the response has resetURL, or the alert
ForgotResumes ==
  /\ run["handleForgotPassword"].pc = "json"
  /\ \/ /\ ~ResOk(run["handleForgotPassword"].status)
        /\ Finish("handleForgotPassword", "notOk", screen)
     \/ /\ ResOk(run["handleForgotPassword"].status)
        /\ \/ Await("handleForgotPassword", "openURL", NoFields)
           \/ Finish("handleForgotPassword", "ok", screen)
  /\ UNCHANGED serverVars

\* await Linking.openURL(data.resetURL) resolves, or rejects into the inner
\* catch
ForgotOpened ==
  /\ run["handleForgotPassword"].pc = "openURL"
  /\ Finish("handleForgotPassword", "ok", screen)
  /\ UNCHANGED serverVars

\* the steps of the run of h after its first await
Continue(h) ==
  \/ Fetched(h)
  \/ h = "submit" /\ SubmitResumes
  \/ h = "handleSignIn" /\ (SignInResumes \/ SignInStored)
  \/ h = "handleForgotPassword" /\ (ForgotResumes \/ ForgotOpened)

(***************************************************************************)
(* Vocabulary of the properties.                                           *)
(***************************************************************************)
IsForgot(p) == reqs[p].route = "forgot-password"
IsReset(p) == reqs[p].route = "reset-password"
Answered(p) == reqs[p].pc = "done"
Status(p) == reqs[p].res.status
Succeeded(p) == Answered(p) /\ Status(p) = 200 /\ reqs[p].res.body.success
\* the store applied the update of p, as the Pos(p)-th update
Wrote(p) == \E i \in 1..Len(hist) : hist[i] = p
Pos(p) == CHOOSE i \in 1..Len(hist) : hist[i] = p
\* an Issue that found its user and computed a token
Issued(p) == IsForgot(p) /\ Has(reqs[p], "resetToken")
\* a Redeem that was given the document of its user
Looked(p) == IsReset(p) /\ Has(reqs[p], "user")
\* the document of its user, as the Redeem p was given it, holds the hash
\* of the token p presents
PresentsStored(p) ==
  /\ Looked(p)
  /\ Has(reqs[p].user, "resetPasswordToken")
  /\ BcryptCompare(reqs[p].body.token, reqs[p].user.resetPasswordToken)
TokenExpiredOrInvalid == Fail(400, "Token expired or invalid")
TokenInvalid == Fail(400, "Token invalid")
\* the raw tokens a request can present
AllTokens == {RawToken(k) : k \in 1..3} \cup {"bogus"}
\* Redeem accepts the raw token t for the user id while it has not expired
Redeemable(id, t) ==
  /\ Has(users[id], "resetPasswordToken")
  /\ BcryptCompare(t, users[id].resetPasswordToken)
\* the user whose document the update of p writes
Target(p) == IF IsForgot(p) THEN reqs[p].user ELSE reqs[p].body.id
\* no update applied after that of p wrote the same document
IsLastWriter(p) ==
  Wrote(p) /\ \A i \in (Pos(p) + 1)..Len(hist) : Target(hist[i]) # Target(p)
\* the Redeems r1 and r2 name the same user and present the same raw token
SameRedeem(r1, r2) ==
  reqs[r1].body.id = reqs[r2].body.id /\ reqs[r1].body.token = reqs[r2].body.token
\* no Issue wrote between the update of r1 and the lookup of r2
NoIssueBetween(r1, r2) ==
  \A i \in (Pos(r1) + 1)..reqs[r2].readAt : ~IsForgot(hist[i])

Next ==
  \/ \E p \in Procs : Forgot(p)
  \/ \E p \in Procs : ForgotUpdate(p)
  \/ \E p \in Procs : Reset(p)
  \/ \E p \in Procs : ResetUpdate(p)

Spec == Init /\ [][Next]_vars

ClientNext ==
  \/ OnChangeText
  \/ Submit
  \/ HandleSignIn
  \/ HandleForgotPassword
  \/ \E h \in Handlers : Fetched(h)
  \/ SubmitResumes
  \/ SignInResumes
  \/ SignInStored
  \/ ForgotResumes
  \/ ForgotOpened

\* every promise a handler awaits settles: it resolves or it rejects
ClientSpec ==
  ClientInit /\ [][ClientNext]_vars /\ \A h \in Handlers : WF_vars(Continue(h))

(***************************************************************************)
(* Properties.                                                             *)
(***************************************************************************)
\* C1: in every reachable state, under every interleaving of Issue and
\* Redeem requests, each user record has resetPasswordToken and
\* resetPasswordExpire both present or both absent.
C1_TokenFieldsPaired ==
  \A id \in UserIds :
    Has(users[id], "resetPasswordToken") <=> Has(users[id], "resetPasswordExpire")

\* an Issue set the two fields and a later Redeem cleared them
C1_Witness ==
  \E p, q \in Procs :
    /\ Issued(p) /\ Wrote(p) /\ IsReset(q) /\ Wrote(q)
    /\ Pos(p) < Pos(q) /\ IsLastWriter(q)
    /\ ~Has(users[Target(q)], "resetPasswordToken")
    /\ ~Has(users[Target(q)], "resetPasswordExpire")

\* a Redeem that presents the stored token before it expires is not turned
\* down: it succeeds, unless the store throws on its update
RedeemOfStoredSucceeds ==
  \A r \in Procs :
    (PresentsStored(r) /\ reqs[r].checkedAt <= ExpireOf(reqs[r].user) /\ Answered(r))
      => (Succeeded(r) \/ reqs[r].res = ServerError)

\* r2 presents, after the Redeem r1 succeeded and with no Issue in between,
\* the token r1 presented
RedeemsAgain(r1, r2) ==
  /\ IsReset(r1) /\ Succeeded(r1)
  /\ Looked(r2) /\ r1 \in reqs[r2].after
  /\ SameRedeem(r1, r2) /\ NoIssueBetween(r1, r2)

\* C2 (as amended): a Redeem with the correct raw token of an outstanding,
\* unexpired token succeeds, and a Redeem with the same raw token that
\* arrives after it has completed, no Issue in between, fails with status
\* 400 and the message "Token expired or invalid".
C2_RedeemOnce ==
  /\ RedeemOfStoredSucceeds
  /\ \A r1, r2 \in Procs :
       RedeemsAgain(r1, r2) => (Answered(r2) /\ reqs[r2].res = TokenExpiredOrInvalid)

\* C2 (as stated): the second Redeem fails with the message "Token invalid".
C2_AsStated ==
  /\ RedeemOfStoredSucceeds
  /\ \A r1, r2 \in Procs :
       RedeemsAgain(r1, r2) => (Answered(r2) /\ reqs[r2].res = TokenInvalid)

\* a token was redeemed and then presented again
C2_Witness == \E r1, r2 \in Procs : RedeemsAgain(r1, r2) /\ Answered(r2)

\* the Issues i1 and i2 of one user, i2 having arrived after the response
\* to i1, have both been applied
IssuedInTurn(i1, i2) ==
  /\ Issued(i1) /\ Issued(i2) /\ Wrote(i1) /\ Wrote(i2)
  /\ i1 \in reqs[i2].after
  /\ reqs[i1].user = reqs[i2].user

\* the Redeem r looked its user up after the update of the Issue i
LookedAfter(r, i) ==
  Looked(r) /\ reqs[r].body.id = reqs[i].user /\ reqs[r].readAt >= Pos(i)

\* the record of its user holds what the Issue i wrote
HoldsIssueOf(i) ==
  /\ users[reqs[i].user].resetPasswordToken = reqs[i].hashedToken
  /\ users[reqs[i].user].resetPasswordExpire = reqs[i].expireAt

\* the Redeem r was turned down and wrote nothing
TurnedDown(r) == Answered(r) /\ Status(r) = 400 /\ ~Wrote(r)

\* C3: after two Issues of one user, one after the other, the token fields
\* hold what the second wrote; a Redeem with the raw token of the first
\* fails and changes nothing, the raw token of the second is redeemable;
\* at most one raw token per user is redeemable at any time.
C3_SecondIssueOverwrites ==
  /\ \A i1, i2 \in Procs :
       IssuedInTurn(i1, i2) =>
         /\ IsLastWriter(i2) =>
              /\ HoldsIssueOf(i2)
              /\ Redeemable(reqs[i2].user, reqs[i2].resetToken)
              /\ ~Redeemable(reqs[i2].user, reqs[i1].resetToken)
         /\ \A r \in Procs :
              LookedAfter(r, i2) =>
                /\ reqs[r].body.token = reqs[i1].resetToken => TurnedDown(r)
                /\ ( /\ reqs[r].body.token = reqs[i2].resetToken
                     /\ reqs[r].readAt = Pos(i2)
                     /\ reqs[r].checkedAt <= reqs[i2].expireAt ) => ~TurnedDown(r)
  /\ \A id \in UserIds : Cardinality({t \in AllTokens : Redeemable(id, t)}) <= 1

\* two Issues in turn, then a Redeem with the raw token of the first
C3_Witness ==
  \E i1, i2, r \in Procs :
    /\ IssuedInTurn(i1, i2) /\ LookedAfter(r, i2)
    /\ reqs[r].body.token = reqs[i1].resetToken
    /\ TurnedDown(r)

\* the email is not empty and is the email of no user
Unknown(email) ==
  Truthy(email) /\ \A id \in UserIds : users[id].email # ToLowerCase(email)
\* the email is the email of a user
Known(email) == \E id \in UserIds : users[id].email = ToLowerCase(email)

\* C4: an Issue whose email matches no user record gets the generic
\* acknowledgment once findOne has answered, and no step of it changes any
\* user record.
C4_UnknownEmailChangesNothing ==
  [][\A p \in Procs :
       ( /\ reqs'[p] # reqs[p]
         /\ reqs'[p].route = "forgot-password"
         /\ Unknown(reqs'[p].body.email) )
         => /\ users' = users
            /\ Has(reqs'[p], "user") =>
                 (reqs'[p].pc = "done" /\ reqs'[p].res = GenericAck)]_vars

\* an Issue for an unknown email was acknowledged while a token is outstanding
C4_Witness ==
  \E p \in Procs :
    /\ IsForgot(p) /\ Answered(p) /\ Unknown(reqs[p].body.email)
    /\ reqs[p].res = GenericAck
    /\ \E id \in UserIds : Has(users[id], "resetPasswordToken")

\* a token issued when the clock read t expires at t + 3600000
ExpiresInAnHour == \A f \in Procs : Issued(f) => reqs[f].expireAt = reqs[f].at + 3600000

\* the Redeem r was answered "Token expired or invalid" and wrote nothing
TurnedDownAsExpired(r) ==
  Answered(r) /\ reqs[r].res = TokenExpiredOrInvalid /\ ~Wrote(r)

\* C5 (as amended): a token issued at time t is stored with the expiry
\* t + 3600000 ms; a Redeem with the correct raw token whose clock reading
\* is after the stored expiry (now > resetPasswordExpire) fails with status
\* 400 and "Token expired or invalid" and writes nothing, and at the
\* instant now = resetPasswordExpire the token is still accepted.
C5_ExpiredAfterTheHour ==
  /\ ExpiresInAnHour
  /\ \A r \in Procs :
       PresentsStored(r) =>
         /\ reqs[r].checkedAt > ExpireOf(reqs[r].user) => TurnedDownAsExpired(r)
         /\ reqs[r].checkedAt = ExpireOf(reqs[r].user) => ~TurnedDown(r)

\* C5 (as stated): the Redeem fails at every time at or after the expiry,
\* the instant now = resetPasswordExpire included.
C5_AsStated ==
  /\ ExpiresInAnHour
  /\ \A r \in Procs :
       (PresentsStored(r) /\ reqs[r].checkedAt >= ExpireOf(reqs[r].user))
         => TurnedDownAsExpired(r)

\* the correct token was presented after its expiry
C5_Witness ==
  \E r \in Procs :
    /\ PresentsStored(r) /\ reqs[r].checkedAt > ExpireOf(reqs[r].user)
    /\ TurnedDownAsExpired(r)

\* the document the Redeem r was given holds a token, and not the one r
\* presents
WrongToken(r) ==
  /\ Looked(r)
  /\ Has(reqs[r].user, "resetPasswordToken")
  /\ ~BcryptCompare(reqs[r].body.token, reqs[r].user.resetPasswordToken)

\* C6 (as amended): a Redeem with a raw token that does not match the
\* stored hash fails with status 400 and writes nothing, whatever the
\* expiry; its message is "Token invalid" while the stored token has not
\* expired and "Token expired or invalid" once it has.
C6_WrongTokenTurnedDown ==
  \A r \in Procs :
    WrongToken(r) =>
      /\ TurnedDown(r)
      /\ reqs[r].res = IF reqs[r].checkedAt > ExpireOf(reqs[r].user)
                        THEN TokenExpiredOrInvalid ELSE TokenInvalid

\* C6 (as stated): the failure is "Token invalid" whatever the expiry.
C6_AsStated ==
  \A r \in Procs : WrongToken(r) => (Answered(r) /\ reqs[r].res = TokenInvalid)

\* a wrong token was presented after the stored token had expired
C6_Witness ==
  \E r \in Procs :
    WrongToken(r) /\ reqs[r].checkedAt > ExpireOf(reqs[r].user) /\ TurnedDown(r)

\* the store answered the lookup of the Issue p, and applied its update
\* when p found a user
StoreServed(p) == Has(reqs[p], "user") /\ (Issued(p) => Wrote(p))

\* two answered forgot-password requests with an email, that of p the email
\* of a user, that of q of none, the store having served both
KnownAndUnknown(p, q) ==
  /\ IsForgot(p) /\ Answered(p) /\ Truthy(reqs[p].body.email) /\ Known(reqs[p].body.email)
  /\ IsForgot(q) /\ Answered(q) /\ Unknown(reqs[q].body.email)
  /\ StoreServed(p) /\ StoreServed(q)

C8_ForgotStatus ==
  \A p \in Procs :
    (IsForgot(p) /\ Answered(p)) =>
      IF ~Truthy(reqs[p].body.email) THEN reqs[p].res = Fail(400, "Email required")
      ELSE IF StoreServed(p) THEN Status(p) = 200 /\ reqs[p].res.body.success = TRUE
      ELSE reqs[p].res = ServerError

\* C8 (as stated): every forgot-password request ends with 200, success: true.
C8_AsStated ==
  \A p \in Procs :
    (IsForgot(p) /\ Answered(p)) => (Status(p) = 200 /\ reqs[p].res.body.success = TRUE)

\* a token was stored, the delivery failed and the response reports it
C8_Witness ==
  \E p \in Procs :
    /\ IsForgot(p) /\ Answered(p) /\ Wrote(p)
    /\ Has(reqs[p].res.body, "error")
    /\ Status(p) = 200

\* neither request had its response when the other arrived
Concurrent(a, b) == a \notin reqs[b].after /\ b \notin reqs[a].after

\* two concurrent Issues of one user were both answered with success, the
\* update of i1 applied before that of i2
IssuedConcurrently(i1, i2) ==
  /\ i1 # i2 /\ Issued(i1) /\ Issued(i2) /\ Concurrent(i1, i2)
  /\ reqs[i1].user = reqs[i2].user
  /\ Succeeded(i1) /\ Succeeded(i2)
  /\ Pos(i1) < Pos(i2)

\* C9: once two concurrent Issues of one user have completed, the token
\* and the expiry of the record both come from the Issue whose update was
\* applied last; its raw token is redeemable and Redeem turns the raw
\* token of the other down.
C9_LastIssueWins ==
  \A i1, i2 \in Procs :
    IssuedConcurrently(i1, i2) =>
      /\ IsLastWriter(i2) =>
           /\ HoldsIssueOf(i2)
           /\ Redeemable(reqs[i2].user, reqs[i2].resetToken)
           /\ ~Redeemable(reqs[i2].user, reqs[i1].resetToken)
      /\ \A r \in Procs :
           LookedAfter(r, i2) =>
             /\ reqs[r].body.token = reqs[i1].resetToken => TurnedDown(r)
             /\ ( /\ reqs[r].body.token = reqs[i2].resetToken
                  /\ reqs[r].readAt = Pos(i2)
                  /\ reqs[r].checkedAt <= reqs[i2].expireAt ) => ~TurnedDown(r)

\* of two concurrent Issues the one that arrived first wrote last, and the
\* raw token of the other was presented afterwards
C9_Witness ==
  \E i1, i2, r \in Procs :
    /\ IssuedConcurrently(i1, i2) /\ i2 \in Earlier(i1)
    /\ LookedAfter(r, i2)
    /\ reqs[r].body.token = reqs[i1].resetToken
    /\ TurnedDown(r)

\* the Redeem r presents an earlier raw token of the user of the concurrent
\* Issue q
Racing(r, q) ==
  /\ IsReset(r) /\ Issued(q) /\ Concurrent(r, q)
  /\ reqs[r].body.id = reqs[q].user
  /\ reqs[r].body.token # reqs[q].resetToken

\* C10: when a Redeem with an earlier raw token races an Issue of the same
\* user and the update of the Issue is applied before that of the Redeem,
\* the Redeem fails, the password is not changed and the token fields the
\* Issue wrote are still there; the Redeem succeeds only when its update
\* is applied before the Issue overwrites the token.
C10_AsStated ==
  \A r, q \in Procs :
    ( /\ Racing(r, q) /\ Wrote(q) /\ Answered(r)
      /\ ~(Wrote(r) /\ Pos(r) < Pos(q)) )
      => /\ ~Succeeded(r) /\ ~Wrote(r)
         /\ IsLastWriter(q) => HoldsIssueOf(q)

\* two Redeems that name the same user and present the same raw token
RedeemTwice(r1, r2) ==
  r1 # r2 /\ IsReset(r1) /\ IsReset(r2) /\ SameRedeem(r1, r2)

\* C11: of the Redeems that carry the same raw token, concurrent or not,
\* whatever their new passwords, at most one returns success and at most
\* one changes passwordHash: a raw token is never redeemed twice.
C11_AsStated ==
  \A r1, r2 \in Procs :
    RedeemTwice(r1, r2) =>
      /\ ~(Succeeded(r1) /\ Succeeded(r2))
      /\ ~(Wrote(r1) /\ Wrote(r2))

\* the delivery of the email of the Issue p failed: sendResetEmail returned
\* success: false, the SMTP send (when configured) and the Ethereal
\* fallback having both failed
DeliveryFailed(p) ==
  Issued(p) /\ Has(reqs[p], "sendResult") /\ ~reqs[p].sendResult.success

\* C12: an Issue whose email matches a user and whose email delivery fails
\* is still answered with status 200 and success: true, and the token hash
\* and the expiry it wrote stay on the record (until a later update of
\* the same record).
C12_DeliveryFailureAcknowledged ==
  \A p \in Procs :
    DeliveryFailed(p) =>
      /\ Answered(p) /\ Status(p) = 200 /\ reqs[p].res.body.success = TRUE
      /\ Wrote(p)
      /\ IsLastWriter(p) => HoldsIssueOf(p)

\* with SMTP credentials configured both sends failed, and the token is on
\* the record
C12_Witness ==
  \E p \in Procs :
    /\ DeliveryFailed(p) /\ Truthy(env.EMAIL_USER)
    /\ Succeeded(p) /\ IsLastWriter(p) /\ HoldsIssueOf(p)

\* a Redeem whose body has its three fields
HasFields(r) ==
  /\ IsReset(r)
  /\ Truthy(reqs[r].body.id) /\ Truthy(reqs[r].body.token) /\ Truthy(reqs[r].body.password)
\* its id is not one new ObjectId accepts
Malformed(r) == HasFields(r) /\ reqs[r].body.id \notin ValidObjectIds
\* its id is well-formed and is the _id of no document
NoSuchUser(r) == HasFields(r) /\ reqs[r].body.id \in ValidObjectIds \ UserIds
\* the Redeem r was answered before any check of a token, and wrote nothing
AnsweredUnchecked(r) ==
  Answered(r) /\ ~Has(reqs[r], "user") /\ ~Has(reqs[r], "checkedAt") /\ ~Wrote(r)

Redeemed(r) == IsReset(r) /\ Wrote(r)

\* C14: a successful Redeem stores the hash of the new password and
\* removes resetPasswordToken and resetPasswordExpire in one update of the
\* store: in no reachable state does the record hold the new passwordHash
\* together with the fields of the redeemed token, nor the passwordHash the
\* Redeem found with the token fields cleared; until the record is written
\* again it holds the new hash and neither token field.
C14_RedeemAtomic ==
  \A r \in Procs :
    Redeemed(r) =>
      LET doc == users[Target(r)]
      IN /\ doc.passwordHash = reqs[r].newHashed => ~Redeemable(Target(r), reqs[r].body.token)
         /\ doc.passwordHash # reqs[r].user.passwordHash
         /\ IsLastWriter(r) =>
              /\ doc.passwordHash = reqs[r].newHashed
              /\ ~Has(doc, "resetPasswordToken") /\ ~Has(doc, "resetPasswordExpire")

\* a Redeem wrote the hash of its password and cleared the token it found
C14_Witness ==
  \E r \in Procs :
    /\ Redeemed(r) /\ Succeeded(r) /\ IsLastWriter(r)
    /\ PresentsStored(r)
    /\ users[Target(r)].passwordHash = BcryptHash(reqs[r].body.password, Salt(r))
    /\ ~Has(users[Target(r)], "resetPasswordToken")

\* the request record r is that of a Redeem that is to fail: a field is
\* missing, the id is malformed or unknown, or the document it was given
\* has no token, an expired token or another token than the one presented
MustFail(r) ==
  /\ r.route = "reset-password"
  /\ \/ ~(Truthy(r.body.id) /\ Truthy(r.body.token) /\ Truthy(r.body.password))
     \/ r.body.id \notin UserIds
     \/ /\ Has(r, "user")
        /\ \/ ~Has(r.user, "resetPasswordToken")
           \/ r.checkedAt > ExpireOf(r.user)
           \/ ~BcryptCompare(r.body.token, r.user.resetPasswordToken)

\* the step is the update of the store for the request p, answered with
\* success; it writes only the document of the user of p
AppliesUpdate(p) ==
  /\ reqs[p].pc = "update" /\ reqs'[p].pc = "done"
  /\ reqs'[p].res.status = 200 /\ reqs'[p].res.body.success
  /\ hist' = Append(hist, p)
  /\ \A id \in UserIds \ {Target(p)} : users'[id] = users[id]

\* C15: every Redeem that fails (missing fields, malformed or unknown id,
\* no outstanding token, expired token, wrong token) is answered without
\* success and leaves every user record unchanged, passwordHash and token
\* fields (expired ones too) included; a record changes only in the step
\* in which the store applies the update of an Issue or of a successful
\* Redeem.
C15_FailedRedeemChangesNothing ==
  [][/\ \A p \in Procs :
          (reqs'[p] # reqs[p] /\ MustFail(reqs'[p])) =>
            /\ reqs'[p].pc = "done" /\ ~reqs'[p].res.body.success
            /\ reqs'[p].res.status \in {400, 404, 500}
            /\ users' = users /\ hist' = hist
     /\ \A p \in Procs :
          (reqs'[p] # reqs[p] /\ reqs'[p].pc = "done" /\ reqs'[p].res.status # 200) =>
            users' = users
     /\ users' # users => \E p \in Procs : AppliesUpdate(p)]_vars

\* the correct token was presented after its expiry and turned down, and
\* the expired token fields are still on the record
C15_Witness ==
  \E r \in Procs :
    /\ PresentsStored(r) /\ reqs[r].checkedAt > ExpireOf(reqs[r].user)
    /\ TurnedDown(r)
    /\ Has(users[Target(r)], "resetPasswordToken")
    /\ users[Target(r)].resetPasswordExpire < now
    /\ users[Target(r)] = reqs[r].user

\* the fields a user record can have
UserFields ==
  {"email", "passwordHash", "updatedAt", "resetPasswordToken", "resetPasswordExpire"}

\* the store holds a reset token only as the salted hash an Issue computed
\* from its raw token, and in no other field
OnlyHashStored ==
  \A id \in UserIds :
    /\ DOMAIN users[id] \subseteq UserFields
    /\ Has(users[id], "resetPasswordToken") =>
         \E p \in Procs :
           /\ Issued(p)
           /\ users[id].resetPasswordToken = BcryptHash(reqs[p].resetToken, Salt(p))

\* C16: the raw reset token is never written to the store, only its
\* salted hash is, and with NODE_ENV "production" no response to a
\* forgot-password request contains resetURL (and with it the raw token),
\* whatever the other settings are.
C16_AsStated ==
  /\ OnlyHashStored
  /\ env.NODE_ENV = "production" =>
       \A p \in Procs :
         (IsForgot(p) /\ Answered(p)) => ~Has(reqs[p].res.body, "resetURL")

\* the step is the press of the button of submit
SubmitPressed ==
  /\ screen = "resetPassword" /\ run["submit"].pc = "idle"
  /\ run'["submit"] # run["submit"]
\* the step is one of the run of submit with its request in flight
SubmitResumed == run["submit"].pc # "idle" /\ run'["submit"] # run["submit"]
\* the step leaves the ResetPassword screen
LeavesResetPassword == screen = "resetPassword" /\ screen' # screen

\* C17: in the ResetPassword screen, submit sends a reset-password request
\* only when the password entered has at least 6 characters, and the
\* router replaces the screen, by the sign-in screen, only in the step in
\* which submit resumes with the parsed body of a response whose status
\* is in 200-299; a short password, another status or a network exception
\* ends the run on the same screen.
C17_SubmitNavigatesOn2xx ==
  [][/\ SubmitPressed =>
          IF Len(form.password) >= 6
          THEN /\ run'["submit"].pc = "fetch"
               /\ run'["submit"].body =
                    [id |-> form.id, token |-> form.token, password |-> form.password]
          ELSE run'["submit"].pc = "idle" /\ screen' = screen
     /\ LeavesResetPassword =>
          /\ screen' = "signIn"
          /\ run["submit"].pc = "json"
          /\ run["submit"].status >= 200 /\ run["submit"].status <= 299
          /\ Len(run["submit"].body.password) >= 6
     /\ ( /\ SubmitResumed
          /\ \/ run["submit"].pc = "fetch" /\ run'["submit"].pc = "idle"
             \/ /\ run["submit"].pc = "json"
                /\ (run["submit"].status < 200 \/ run["submit"].status > 299) )
          => (run'["submit"].pc = "idle" /\ screen' = screen)]_vars

\* submit sent a password of six characters, got a 2xx response, and the
\* router shows the sign-in screen
C17_Witness ==
  /\ screen = "signIn"
  /\ run["submit"] = [pc |-> "idle", ended |-> "ok"]
  /\ loading = NotLoading

\* the handler h has a run that has not finished
Running(h) == run[h].pc # "idle"

\* C18: in submit, handleSignIn and handleForgotPassword the loading flag
\* of the handler is set to true only in the step that sends the request,
\* it is true only while a run of the handler has not finished, and every
\* run that has sent its request finishes (with success, with the early
\* return on a response that is not ok, or with an exception) with the
\* flag reset to false, so that the button is enabled again.
C18_LoadingFlagsReset ==
  /\ [](\A h \in Handlers : loading[h] => Running(h))
  /\ [][\A h \in Handlers :
         (loading'[h] /\ ~loading[h]) =>
           (run[h].pc = "idle" /\ run'[h].pc = "fetch" /\ screen = ScreenOf(h))]_vars
  /\ \A h \in Handlers : Running(h) ~> (~Running(h) /\ ~loading[h])

\* on the sign-in screen a run of handleForgotPassword took the early
\* return on a response that is not ok, and its flag is false again
C18_Witness ==
  /\ screen = "signIn"
  /\ run["handleForgotPassword"] = [pc |-> "idle", ended |-> "notOk"]
  /\ ~loading["handleForgotPassword"]

====
